---- MODULE Spec2Model ----
(***************************************************************************)
(* The workflow supervisor of orchestrated-ai-agents                       *)
(* (src/orchestrator/supervisor.py) with the Redis-backed state store      *)
(* (src/memory/redis_memory.py) it persists to.                            *)
(*                                                                         *)
(* Callers are the coroutines of the event loop (one per HTTP request,     *)
(* src/app/api.py).  The event loop is single threaded: a coroutine runs   *)
(* without interruption up to its next real suspension, which is one of    *)
(*   - await planner.execute(task)        (create_workflow)                *)
(*   - await agent.execute(state)         (node handler)                   *)
(*   - await asyncio.sleep(2 ** retries)  (_retry_node)                    *)
(* Every action below is one such uninterrupted stretch of code.  The      *)
(* suspended coroutines are kept as a bag of frames: a coroutine has no    *)
(* identity beyond its locals and the await it is suspended at.            *)
(*                                                                         *)
(* Texts (exception messages, error strings) are sequences of string       *)
(* tokens, in the order in which the f-strings of the source put them.     *)
(***************************************************************************)
EXTENDS Integers, Sequences, FiniteSets, Bags, TLC

\* ------------------------------------------------------------------ bounds
MaxCalls    == 3      \* calls of create_workflow and execute_workflow
MaxSteps    == 2      \* most steps a plan holds
NumCallers  == 2      \* coroutines that may be suspended together
MaxFailures == 4      \* failures the agents may report
MaxFaults   == 1      \* store operations the backend may refuse
MaxLlmRetries == 3    \* largest max_retries an agent is built with
MaxLines    == 3      \* most lines of a plan text

\* -------------------------------------------------------- program constants
MAX_RETRIES == 3

\* the agents dictionary src/app/api.py hands to Supervisor(...), in
\* insertion order, and a dictionary without planner
Agents ==
  <<"research_agent", "summarizer_agent", "code_agent", "evaluator_agent",
    "planner_agent">>

AgentsWithoutPlanner ==
  <<"research_agent", "summarizer_agent", "code_agent", "evaluator_agent">>

\* Python's None: where a name or an id is expected, where a document, a
\* graph or a frame is expected, and where a text is expected (no text the
\* program builds is empty)
None == "None"

NoDoc == [none |-> TRUE]

NoText == << >>

\* langgraph's END marker
END == "__end__"

\* ------------------------------------------------------------------- plans
\* What the planner's response data carries, as far as the supervisor reads
\* it: the task, the step lines of the plan text (by count) and the list
\* agents_involved.
Tasks == {"task_a"}

\* agents_involved naming registered agents, and naming none
ListedAgents == <<"summarizer_agent", "code_agent_v2">>

UnknownAgents == <<"writer_agent">>

\* the plans the planner may answer with: one without steps, one of MaxSteps
\* steps, and one plan whose agents are not registered
Plans ==
  [task : Tasks, steps : {0, MaxSteps}, agents_involved : {ListedAgents}]
    \cup [task : Tasks, steps : {1}, agents_involved : {UnknownAgents}]

\* {} : the default of .get("plan", {})
EmptyPlan == [agents_involved |-> << >>]

\* `a in b` for the names of this model: Python's substring test on str
NameOccursIn(a, b) ==
  \/ a = b
  \/ (a = "code_agent" /\ b = "code_agent_v2")

\* agent_name in str(list): the name occurs in the printed list exactly when
\* it occurs in one of its elements (no name of the model spans two elements)
OccursInList(a, list) == \E i \in 1..Len(list) : NameOccursIn(a, list[i])

\* ------------------------------------------------------------- state store
\* Keys of the store: "workflow:<id>"
WorkflowIds == {"wf_" \o ToString(i) : i \in 1..MaxCalls}

\* an id this Supervisor never generated
ForeignId == "wf_0"

WorkflowKey(workflow_id) == "workflow:" \o workflow_id

Keys == {WorkflowKey(w) : w \in WorkflowIds \cup {ForeignId}}

\* error texts
NotFoundMsg(workflow_id) == <<"No workflow found with ID:", workflow_id>>
NoGraphMsg == <<"No workflow graph defined">>
NoAgentMsg(node) == <<"No agent found for node", node>>
AgentFailedMsg(err) == <<"Agent execution failed:">> \o err
NoAttributeMsg == <<"type object 'StateGraph' has no attribute 'get'">>
IndexErrorMsg == <<"list index out of range">>
PlanningFailedMsg(err) == <<"Planning failed:">> \o err
NoPlannerMsg == <<"Planner agent not available">>
AgentErrorText == <<"agent reported an error">>

\* RedisMemory.save_state: the value under key after the call.  ok = FALSE is
\* the except branch (json.dumps or redis.set raised): nothing is written.
\* The documents of this model are maps from strings to JSON values, which
\* json.dumps / json.loads hand back as they were (StoreSpec below spells
\* the encoding out and checks this round trip).
SaveState(s, key, state, ok) ==
  IF ok THEN [s EXCEPT ![key] = state] ELSE s

\* RedisMemory.load_state: the document, or None when the key holds nothing
\* or the backend raised (ok = FALSE).
LoadState(s, key, ok) ==
  IF ok /\ s[key] # NoDoc THEN s[key] ELSE NoDoc

\* RedisMemory.save_workflow_state / get_workflow_state
SaveWorkflowState(s, workflow_id, state, ok) ==
  SaveState(s, WorkflowKey(workflow_id), state, ok)

GetWorkflowState(s, workflow_id, ok) ==
  LoadState(s, WorkflowKey(workflow_id), ok)

\* dict.update on a document: keys of upd replace or extend those of doc
Update(doc, upd) ==
  [k \in DOMAIN doc \cup DOMAIN upd |->
     IF k \in DOMAIN upd THEN upd[k] ELSE doc[k]]

\* format_agent_response
FormatAgentResponse(success, data, error) ==
  [success |-> success, data |-> data, error |-> error]

EmptyDict == << >>

\* --------------------------------------------------------- graph building
\* node names that count down from MaxSteps
StepNodeDescending(i) == "step_" \o ToString(MaxSteps - i)

StepNode(i) == "step_" \o ToString(i)

\* Supervisor._extract_steps: one step per recognised step line of the plan
ExtractSteps(plan) == [i \in 1..plan.steps |-> i]

\* Supervisor._extract_graph_structure: <<nodes, edges>>
\* every step under the name of the first
ExtractNodesRepeated(plan) ==
  [i \in 1..Len(ExtractSteps(plan)) |-> StepNode(0)]

ExtractNodes(plan) ==
  [i \in 1..Len(ExtractSteps(plan)) |-> StepNode(i - 1)]

\* edges that point from each step back to its predecessor
ExtractEdgesReversed(plan) ==
  [i \in 1..(Len(ExtractSteps(plan)) - 1) |->
     <<StepNode(i), StepNode(i - 1), None>>]

ExtractEdges(plan) ==
  [i \in 1..(Len(ExtractSteps(plan)) - 1) |->
     <<StepNode(i - 1), StepNode(i), None>>]

\* Supervisor._get_fallback_node
GetFallbackNode(node) == node \o "_fallback"

\* one edge as _build_graph hands it to the graph
AddedEdge(e) ==
  IF e[3] # None
  THEN [from |-> e[1], cond |-> e[3], to |-> e[2],
        fallback |-> GetFallbackNode(e[2])]
  ELSE [from |-> e[1], cond |-> None, to |-> e[2], fallback |-> None]

\* Supervisor._build_graph: the graph, or the exception it raises (its class
\* and its text).  nodes[-1] of an empty list raises IndexError.
BuildGraph(plan) ==
  LET nodes == ExtractNodes(plan)
      edges == ExtractEdges(plan)
  IN IF Len(nodes) = 0
     THEN [raised |-> TRUE, type |-> "IndexError", error |-> IndexErrorMsg]
     ELSE [raised |-> FALSE,
           nodes  |-> Append(nodes, END),
           edges  |-> Append([i \in 1..Len(edges) |-> AddedEdge(edges[i])],
                             [from |-> nodes[Len(nodes)], cond |-> None,
                              to |-> END, fallback |-> None])]

NoGraph == NoDoc

\* the graph's traversal order (StateGraph.aexecute): the start node is the
\* first node added, the successor of a node is the target of its edge
StartNode(g) == g.nodes[1]

Successor(g, node) ==
  LET out == {i \in 1..Len(g.edges) : g.edges[i].from = node}
  IN IF out = {} THEN END
     ELSE g.edges[CHOOSE i \in out : \A j \in out : i <= j].to

\* ------------------------------------------------------------------- state
VARIABLES
  store,                \* RedisMemory: key -> document, NoDoc when absent
  graph,                \* Supervisor.graph
  current_workflow_id,  \* Supervisor.current_workflow_id
  generated,            \* number of ids _generate_workflow_id has returned
  stateGraphGet,        \* what StateGraph.get("plan", {}) does in this build
  agents, \* Supervisor.agents: the registered names, in order
  calls,                \* the suspended coroutines: a bag of their frames
  ret,                  \* what the last step handed back to a caller
  started,              \* calls started
  failures,             \* failures the agents have reported
  faults                \* store operations the backend has refused

vars ==
  <<store, graph, current_workflow_id, generated, stateGraphGet,
                 agents, calls, ret, started, failures, faults>>

\* the keys of Supervisor.agents
AgentNames == {agents[i] : i \in 1..Len(agents)}

\* a generator that hands out one id again and again
GenerateWorkflowIdRepeating(n) == "wf_" \o ToString(1)

\* Supervisor._generate_workflow_id: uuid4, an id never returned before
GenerateWorkflowId(n) == "wf_" \o ToString(n + 1)

GeneratedIds == {GenerateWorkflowId(i) : i \in 0..(generated - 1)}

\* d.get(k, default)
Get(d, k, default) == IF k \in DOMAIN d THEN d[k] ELSE default

\* d[k] = v
Put(d, k, v) == [x \in DOMAIN d \cup {k} |-> IF x = k THEN v ELSE d[x]]

\* ----------------------------------------------------------- node handler
\* StateGraph.get("plan", {}) on line 240 is looked up on the imported class,
\* not on the handler's argument: what it yields is fixed by the library.
\* "raises": the class has no such attribute (AttributeError)
\* "plan"  : the lookup yields the plan of the workflow state in execution,
\*           {} when that state holds none
StateGraphGet(f) ==
  IF stateGraphGet = "raises"
  THEN [raised |-> TRUE, error |-> NoAttributeMsg]
  ELSE [raised |-> FALSE, value |-> Get(f.state, "plan", EmptyPlan)]

\* Supervisor._get_agent_for_node: the first registered agent whose name
\* occurs in str(plan["agents_involved"]); the node plays no part
GetAgentForNode(node, plan) ==
  LET listed == Get(plan, "agents_involved", << >>)
      hits == {i \in 1..Len(agents) : OccursInList(agents[i], listed)}
  IN IF hits = {} THEN None
     ELSE agents[CHOOSE i \in hits : \A j \in hits : i <= j]

\* a retry policy that lets one retry too many through
ShouldRetryInclusive(node, state) ==
  Get(Get(state, "retries", EmptyDict), node, 0) <= MAX_RETRIES

\* Supervisor._should_retry
ShouldRetry(node, state) ==
  Get(Get(state, "retries", EmptyDict), node, 0) < MAX_RETRIES

\* 2 ** n
RECURSIVE Pow2(_)
Pow2(n) == IF n = 0 THEN 1 ELSE 2 * Pow2(n - 1)

\* Supervisor._retry_node up to its sleep: the counter goes up by one, then
\* the coroutine sleeps 2 ** (new counter) seconds
\* a counter that goes up by two
RetryCountDouble(node, state) ==
  Get(Get(state, "retries", EmptyDict), node, 0) + 2

RetryCount(node, state) == Get(Get(state, "retries", EmptyDict), node, 0) + 1

\* a sleep computed from the counter before its increment
RetryDelayBeforeIncrement(node, state) ==
  Pow2(Get(Get(state, "retries", EmptyDict), node, 0))

RetryDelay(node, state) == Pow2(RetryCount(node, state))

\* a retry that does not record the attempt
RetryNodeNotCounting(node, f) ==
  [f EXCEPT !.delay   = RetryDelay(node, f),
            !.delays  = Put(f.delays, node,
                            Append(Get(f.delays, node, << >>),
                                   RetryDelay(node, f)))]

\* a retry that starts the counters afresh, keeping that of its node only
RetryNodeResettingOthers(node, f) ==
  [f EXCEPT !.retries = [n \in {node} |-> RetryCount(node, f)],
            !.delay   = RetryDelay(node, f),
            !.delays  = Put(f.delays, node,
                            Append(Get(f.delays, node, << >>),
                                   RetryDelay(node, f)))]

RetryNode(node, f) ==
  [f EXCEPT !.retries = Put(f.retries, node, RetryCount(node, f)),
            !.delay   = RetryDelay(node, f),
            !.delays  = Put(f.delays, node,
                            Append(Get(f.delays, node, << >>),
                                   RetryDelay(node, f)))]

\* the handler from its entry to the await of agent.execute, or to the
\* exception raised before it
HandlerEntry(f) ==
  LET got == StateGraphGet(f)
      agent_name ==
        IF got.raised THEN None ELSE GetAgentForNode(f.node, got.value)
  IN IF got.raised THEN [kind |-> "exc", error |-> got.error]
     ELSE IF agent_name = None \/ agent_name \notin AgentNames
          THEN [kind |-> "exc", error |-> NoAgentMsg(f.node)]
          ELSE [kind |-> "agent", agent |-> agent_name]

\* ------------------------------------------------------- execute_workflow
\* line 101: error_msg
ErrorMsg(exc) == <<"Workflow execution failed:">> \o exc

\* lines 108-111: the record the except branch saves
FailedState(error_msg) == [status |-> "failed", error |-> error_msg]

\* lines 105-107: the id the except branch saves under (None: no save)
FailedTarget(workflow_id, current) == current

\* lines 89-92: state.update({...})
CompletedState(state, results) ==
  Update(state, [status |-> "completed", results |-> results])

\* an except branch that raises again, as the one of create_workflow does
FailureOutcomeRaises(error_msg) ==
  [kind |-> "raised",
   response |-> FormatAgentResponse(FALSE, EmptyDict, error_msg)]

\* lines 114-117 and 95-98: what the call hands to its caller
FailureOutcome(error_msg) ==
  [kind |-> "returned",
   response |-> FormatAgentResponse(FALSE, EmptyDict, error_msg)]

SuccessOutcome(results) ==
  [kind |-> "returned",
   response |-> FormatAgentResponse(TRUE, results, NoText)]

\* locals of an execute_workflow coroutine; pc is the await it is suspended
\* at ("agent", "sleep"); exc is the exception the handler caught last;
\* entered, invoked, delays and io record what the run did (handler entries,
\* agent calls and sleeps per node, whether every store operation of the
\* call went through)
NewFrame(workflow_id, state, io) ==
  [op |-> "execute_workflow", pc |-> "start", workflow_id |-> workflow_id,
   state |-> state, g |-> NoGraph, node |-> None, agent |-> None,
   exc |-> NoText,
   results |-> EmptyDict, retries |-> EmptyDict, delay |-> 0,
   entered |-> EmptyDict, invoked |-> EmptyDict, delays |-> EmptyDict,
   io |-> io]

\* the caller's view of a finished execute_workflow: the outcome, the record
\* held under the call's id at the moment of return, and the run's locals
ExecRet(f, outcome, s, completed) ==
  [op |-> "execute_workflow", workflow_id |-> f.workflow_id,
   kind |-> outcome.kind, response |-> outcome.response,
   persisted |-> s[WorkflowKey(f.workflow_id)],
   found |-> f.state # NoDoc, completed |-> completed,
   g |-> f.g, results |-> f.results, retries |-> f.retries, exc |-> f.exc,
   entered |-> f.entered, invoked |-> f.invoked, delays |-> f.delays,
   io |-> f.io]

\* no call returned in this step
NoRet == [op |-> "none"]

\* the coroutines that are suspended, and those other than f
Suspended == BagToSet(calls)

Others(f) == calls (-) SetToBag({f})

\* the event loop takes one more call
MayStart ==
  /\ started < MaxCalls
  /\ BagCardinality(calls) < NumCallers

\* a call is over: rest are the coroutines still suspended
Finish(rest, r) ==
  /\ calls' = rest
  /\ ret' = r

\* a call reaches an await
Suspend(rest, f, at) ==
  /\ calls' = rest (+) SetToBag({[f EXCEPT !.pc = at]})
  /\ ret' = NoRet

\* n more store operations are refused by the backend
StoreFaults(n) ==
  /\ faults + n <= MaxFaults
  /\ faults' = faults + n

\* the except branch of execute_workflow (lines 100-117); refused counts the
\* store operations of this step that were refused before it
ExecuteExcept(rest, f, exc, current, refused) ==
  LET error_msg == ErrorMsg(exc)
      target == FailedTarget(f.workflow_id, current)
  IN \E ok \in (IF target # None THEN BOOLEAN ELSE {TRUE}) :
       LET s == IF target # None
                THEN SaveWorkflowState(store, target, FailedState(error_msg),
                                       ok)
                ELSE store
           f2 == [f EXCEPT !.io = f.io /\ ok]
       IN /\ store' = s
          /\ StoreFaults(refused + (IF ok THEN 0 ELSE 1))
          /\ Finish(rest, ExecRet(f2, FailureOutcome(error_msg), s, FALSE))

\* lines 88-98: the traversal came back
ExecuteComplete(rest, f) ==
  \E ok \in BOOLEAN :
    LET state == CompletedState(f.state, f.results)
        s == SaveWorkflowState(store, f.workflow_id, state, ok)
        f2 == [f EXCEPT !.state = state, !.io = f.io /\ ok]
    IN /\ store' = s
       /\ StoreFaults(IF ok THEN 0 ELSE 1)
       /\ Finish(rest, ExecRet(f2, SuccessOutcome(f.results), s, TRUE))

\* the except branch of the handler (lines 256-260), then _retry_node up to
\* its sleep, or the exception leaving the traversal
HandlerExcept(rest, f, exc, current) ==
  IF ShouldRetry(f.node, f)
  THEN /\ Suspend(rest, RetryNode(f.node, [f EXCEPT !.exc = exc]), "sleep")
       /\ UNCHANGED <<store, faults>>
  ELSE ExecuteExcept(rest, [f EXCEPT !.exc = exc], exc, current, 0)

\* the handler of f.node is entered (lines 237-246)
EnterHandler(rest, f0, current) ==
  LET f == [f0 EXCEPT !.entered = Put(f0.entered, f0.node,
                                      Get(f0.entered, f0.node, 0) + 1)]
      h == HandlerEntry(f)
  IN IF h.kind = "agent"
     THEN /\ Suspend(rest,
                     [f EXCEPT !.agent = h.agent,
                               !.invoked = Put(f.invoked, f.node,
                                               Get(f.invoked, f.node, 0) + 1)],
                     "agent")
          /\ UNCHANGED <<store, faults>>
     ELSE HandlerExcept(rest, f, h.error, current)

\* execute_workflow from its call to its first suspension or its return
ExecuteWorkflow(workflow_id, loadOk) ==
  /\ MayStart
  /\ started' = started + 1
  /\ LET state == GetWorkflowState(store, workflow_id, loadOk)
         f == NewFrame(workflow_id, state, loadOk)
     IN IF state = NoDoc
        THEN /\ UNCHANGED current_workflow_id
             /\ ExecuteExcept(calls,
                              [f EXCEPT !.exc = NotFoundMsg(workflow_id)],
                              NotFoundMsg(workflow_id), current_workflow_id,
                              IF loadOk THEN 0 ELSE 1)
        ELSE /\ current_workflow_id' = workflow_id
             /\ IF graph = NoGraph
                THEN ExecuteExcept(calls, [f EXCEPT !.exc = NoGraphMsg],
                                   NoGraphMsg, workflow_id, 0)
                ELSE EnterHandler(calls,
                                  [f EXCEPT !.g = graph,
                                            !.node = StartNode(graph)],
                                  workflow_id)
  /\ UNCHANGED <<graph, generated, stateGraphGet, agents, failures>>

\* a handler that hands the agent a context without the results so far
AgentInputWithoutResults(f) ==
  [workflow_id |-> f.workflow_id, state |-> f.state, results |-> EmptyDict,
   retries |-> f.retries]

\* line 246, agent.execute(state): the argument is the handler's own
\* argument, the context of _execute_graph (lines 190-194) with the results
\* and the retry counters it has come to hold
AgentInput(f) ==
  [workflow_id |-> f.workflow_id, state |-> f.state, results |-> f.results,
   retries |-> f.retries]

\* what an agent hands back on success: its name and the results it was
\* shown in its input
AgentData(f) == [agent |-> f.agent, saw |-> DOMAIN AgentInput(f).results]

\* a success that also clears the retry counter of its node
RecordResultClearingRetries(f, data) ==
  [f EXCEPT !.results = Put(f.results, f.node, data),
            !.retries = [m \in DOMAIN f.retries \ {f.node} |-> f.retries[m]],
            !.agent = None]

\* lines 249-250: state["results"][node] = result["data"]
RecordResult(f, data) ==
  [f EXCEPT !.results = Put(f.results, f.node, data),
            !.agent = None]

\* agent.execute returns or reports failure (lines 246-254), the traversal
\* goes on
AgentReturns(f, out) ==
  /\ f.pc = "agent"
  /\ failures' = failures + (IF out = "fail" THEN 1 ELSE 0)
  /\ failures' <= MaxFailures
  /\ CASE out = "ok" ->
            LET f2 == RecordResult(f, AgentData(f))
                next == Successor(f.g, f.node)
            IN IF next = END
               THEN ExecuteComplete(Others(f), f2)
               ELSE EnterHandler(Others(f), [f2 EXCEPT !.node = next],
                                 current_workflow_id)
       [] out = "fail" ->
            HandlerExcept(Others(f), [f EXCEPT !.agent = None],
                          AgentFailedMsg(AgentErrorText),
                          current_workflow_id)
  /\ UNCHANGED <<graph, current_workflow_id, generated, stateGraphGet,
                 agents, started>>

\* asyncio.sleep is over: _retry_node enters a fresh handler (lines 327-328)
SleepEnds(f) ==
  /\ f.pc = "sleep"
  /\ EnterHandler(Others(f), f, current_workflow_id)
  /\ UNCHANGED <<graph, current_workflow_id, generated, stateGraphGet,
                 agents, started, failures>>

\* -------------------------------------------------------- create_workflow
\* lines 50-58: the record create_workflow saves
InitialState(plan, task) ==
  [status |-> "initialized", plan |-> plan, task |-> task]

CreateRet(kind, value, error, plan) ==
  [op |-> "create_workflow", kind |-> kind, value |-> value,
   error |-> error, plan |-> plan]

\* create_workflow up to await planner.execute(task) (lines 40-42, 129-133)
CreateWorkflow(task) ==
  /\ MayStart
  /\ started' = started + 1
  /\ IF "planner_agent" \notin AgentNames
     THEN Finish(calls, CreateRet("raised", None, NoPlannerMsg, NoDoc))
     ELSE Suspend(calls, [op |-> "create_workflow", pc |-> "start",
                          task |-> task], "plan")
  /\ UNCHANGED <<store, graph, current_workflow_id, generated, stateGraphGet,
                 agents, failures, faults>>

\* the planner reports failure (lines 135-136, 62-64)
\* a failure that also drops the graph built before
PlannerFailsDroppingGraph(f) ==
  /\ f.pc = "plan"
  /\ Finish(Others(f),
            CreateRet("raised", None, PlanningFailedMsg(AgentErrorText),
                      NoDoc))
  /\ graph' = NoGraph
  /\ UNCHANGED <<store, current_workflow_id, generated, stateGraphGet,
                 agents, started, failures, faults>>

PlannerFails(f) ==
  /\ f.pc = "plan"
  /\ Finish(Others(f),
            CreateRet("raised", None, PlanningFailedMsg(AgentErrorText),
                      NoDoc))
  /\ UNCHANGED <<store, graph, current_workflow_id, generated, stateGraphGet,
                 agents, started, failures, faults>>

\* the planner returns a plan: lines 138, 45-60
PlannerReturns(f, plan) ==
  /\ f.pc = "plan"
  /\ plan.task = f.task
  /\ LET built == BuildGraph(plan)
         id == GenerateWorkflowId(generated)
     IN IF built.raised
        THEN /\ Finish(Others(f), CreateRet("raised", None, built.error, plan))
             /\ UNCHANGED <<store, graph, current_workflow_id, generated,
                            faults>>
        ELSE \E ok \in BOOLEAN :
               /\ graph' = built
               /\ generated' = generated + 1
               /\ current_workflow_id' = id
               /\ store' = SaveWorkflowState(store, id,
                             InitialState(plan, f.task), ok)
               /\ StoreFaults(IF ok THEN 0 ELSE 1)
               /\ Finish(Others(f), CreateRet("returned", id, NoText, plan))
  /\ UNCHANGED <<stateGraphGet, agents, started, failures>>

\* ------------------------------------------------------------ the process
\* The process ends and is started anew: its coroutines are gone, the store
\* keeps what was saved, and Supervisor.__init__ (lines 25-28) leaves the
\* new Supervisor without graph and without current workflow.
Restart ==
  /\ calls' = EmptyBag
  /\ graph' = NoGraph
  /\ current_workflow_id' = None
  /\ ret' = NoRet
  /\ UNCHANGED <<store, generated, stateGraphGet, agents, started, failures,
                 faults>>

\* ----------------------------------------------------------- specification
StateGraphGetOutcomes == {"raises", "plan"}

AgentOutcomes == {"ok", "fail"}

Init ==
  /\ store = [k \in Keys |-> NoDoc]
  /\ graph = NoGraph
  /\ current_workflow_id = None
  /\ generated = 0
  /\ stateGraphGet \in StateGraphGetOutcomes
  /\ agents \in {Agents, AgentsWithoutPlanner}
  /\ calls = EmptyBag
  /\ ret = NoRet
  /\ started = 0
  /\ failures = 0
  /\ faults = 0

Next ==
  \/ \E task \in Tasks : CreateWorkflow(task)
  \/ \E f \in Suspended : PlannerFails(f)
  \/ \E f \in Suspended, plan \in Plans : PlannerReturns(f, plan)
  \/ \E workflow_id \in GeneratedIds \cup {ForeignId}, loadOk \in BOOLEAN :
       ExecuteWorkflow(workflow_id, loadOk)
  \/ \E f \in Suspended, out \in AgentOutcomes : AgentReturns(f, out)
  \/ \E f \in Suspended : SleepEnds(f)
  \/ Restart

Spec == Init /\ [][Next]_vars

TypeOK ==
  /\ generated \in 0..MaxCalls
  /\ started \in 0..MaxCalls
  /\ failures \in 0..MaxFailures
  /\ faults \in 0..MaxFaults
  /\ BagCardinality(calls) <= NumCallers
  /\ \A f \in Suspended : f.pc \in {"plan", "agent", "sleep"}

\* ------------------------------------------------- the store, on its own
\* RedisMemory with the encoding of save_state and the decoding of
\* load_state spelled out.  A Python object is the pair of its type and its
\* value; the value of a dict is a function from key objects to objects.
Type(o) == o[1]

Value(o) == o[2]

PyStr(s) == <<"str", s>>

PyInt(n) == <<"int", n>>

PyBool(b) == <<"bool", b>>

PyNone == <<"NoneType", None>>

PyList(q) == <<"list", q>>

PyTuple(q) == <<"tuple", q>>

PySet(S) == <<"set", S>>

PyDict(f) == <<"dict", f>>

\* A JSON text is the pair of its production and its content.
JsonObject(f) == <<"object", f>>

JsonArray(q) == <<"array", q>>

JsonString(s) == <<"string", s>>

JsonNumber(n) == <<"number", n>>

JsonLiteral(w) == <<"literal", w>>

\* the types json.dumps writes as the name of an object member
KeyTypes == {"str", "int", "bool", "NoneType"}

\* json.dumps on a dict key: a str as it is, an int as its decimal digits,
\* True / False / None as true / false / null
JsonKey(k) ==
  CASE Type(k) = "str" -> Value(k)
    [] Type(k) = "int" -> ToString(Value(k))
    [] Type(k) = "bool" -> (IF Value(k) THEN "true" ELSE "false")
    [] Type(k) = "NoneType" -> "null"

\* json.dumps raises TypeError on an object of any other type, at any depth
RECURSIVE Serializable(_)
Serializable(o) ==
  CASE Type(o) \in KeyTypes -> TRUE
    [] Type(o) \in {"list", "tuple"} ->
         \A i \in 1..Len(Value(o)) : Serializable(Value(o)[i])
    [] Type(o) = "dict" ->
         \A k \in DOMAIN Value(o) :
           Type(k) \in KeyTypes /\ Serializable(Value(o)[k])
    [] OTHER -> FALSE

\* the text json.dumps writes: list and tuple both become an array, a dict
\* becomes an object whose member names are the converted keys (of two keys
\* converted to one name a decoder keeps one member)
RECURSIVE Encode(_)
Encode(o) ==
  CASE Type(o) = "str" -> JsonString(Value(o))
    [] Type(o) = "int" -> JsonNumber(Value(o))
    [] Type(o) = "bool" -> JsonLiteral(IF Value(o) THEN "true" ELSE "false")
    [] Type(o) = "NoneType" -> JsonLiteral("null")
    [] Type(o) \in {"list", "tuple"} ->
         JsonArray([i \in 1..Len(Value(o)) |-> Encode(Value(o)[i])])
    [] Type(o) = "dict" ->
         JsonObject([name \in {JsonKey(k) : k \in DOMAIN Value(o)} |->
                       Encode(Value(o)[CHOOSE k \in DOMAIN Value(o) :
                                    JsonKey(k) = name])])

\* json.dumps(state), line 58
JsonDumps(state) ==
  IF Serializable(state)
  THEN [raised |-> FALSE, text |-> Encode(state)]
  ELSE [raised |-> TRUE, type |-> "TypeError"]

\* json.loads(state), line 83: an object becomes a dict with str keys, an
\* array a list
RECURSIVE JsonLoads(_)
JsonLoads(text) ==
  CASE Type(text) = "string" -> PyStr(Value(text))
    [] Type(text) = "number" -> PyInt(Value(text))
    [] Type(text) = "literal" ->
         (IF Value(text) = "null" THEN PyNone ELSE PyBool(Value(text) = "true"))
    [] Type(text) = "array" ->
         PyList([i \in 1..Len(Value(text)) |-> JsonLoads(Value(text)[i])])
    [] Type(text) = "object" ->
         PyDict([k \in {PyStr(name) : name \in DOMAIN Value(text)} |->
                   JsonLoads(Value(text)[Value(k)])])

\* the objects handed to save_state: the empty dict, dicts of one item with a
\* str key and a value of each type, and a dict with an int key
Items == {PyStr("a"), PyInt(1), PyBool(TRUE), PyNone}

EmptyPyDict == PyDict([k \in {} |-> PyNone])

PyValues ==
  Items
    \cup {PyList(<<PyStr("a"), PyInt(1)>>), PyTuple(<<PyStr("a")>>)}
    \cup {PySet({PyStr("a")}), PyDict([k \in {PyInt(1)} |-> PyInt(1)])}

PyStates ==
  {EmptyPyDict, PyDict([k \in {PyInt(1)} |-> PyInt(1)])}
    \cup {PyDict([k \in {PyStr("a")} |-> value]) : value \in PyValues}

\* the keys of the database and the patterns asked for
StoreKeys == {WorkflowKey("wf_1"), "agent:summarizer_agent"}

Patterns == {"*", "workflow:*", "agent:summarizer_agent"}

\* the glob match of redis.keys for these patterns
Matches(pattern, key) ==
  \/ pattern = "*"
  \/ pattern = key
  \/ pattern = "workflow:*" /\ \E w \in WorkflowIds : key = WorkflowKey(w)

\* redis.keys(pattern): the keys that hold a value and match
RedisKeys(s, pattern) ==
  {key \in DOMAIN s : s[key] # NoText /\ Matches(pattern, key)}

\* the lists that hold each element of S once (redis.keys fixes no order)
Enumerations(S) ==
  {q \in [1..Cardinality(S) -> S] : \A x \in S : \E i \in DOMAIN q : q[i] = x}

\* what a call of a RedisMemory method came to
StoreRet(op, key, state, ok, value) ==
  [op |-> op, key |-> key, state |-> state, ok |-> ok, kind |-> "returned",
   value |-> value]

SupervisorVars ==
  <<graph, current_workflow_id, generated, stateGraphGet, agents, calls,
    started, failures, faults>>

\* RedisMemory.save_state(key, state) with ttl = None, lines 45-68.
\* ok = FALSE: redis.set raises.
SaveStateCall(key, state, ok) ==
  LET serialized_state == JsonDumps(state)
      saved == ~serialized_state.raised /\ ok
  IN /\ store' = IF saved
                 THEN [store EXCEPT ![key] = serialized_state.text]
                 ELSE store
     /\ ret' = StoreRet("save_state", key, state, ok, saved)
     /\ UNCHANGED SupervisorVars

LoadStateCallUndecoded(key, ok) ==
  LET state == IF ok THEN store[key] ELSE NoText
  IN /\ ret' = StoreRet("load_state", key, NoText, ok,
                        IF state # NoText THEN state ELSE PyNone)
     /\ UNCHANGED <<store, SupervisorVars>>

\* RedisMemory.load_state(key), lines 70-88.  ok = FALSE: redis.get raises.
\* A text written by save_state is never the empty string, so "if state"
\* asks whether the key holds a value.
LoadStateCall(key, ok) ==
  LET state == IF ok THEN store[key] ELSE NoText
  IN /\ ret' = StoreRet("load_state", key, NoText, ok,
                        IF state # NoText THEN JsonLoads(state) ELSE PyNone)
     /\ UNCHANGED <<store, SupervisorVars>>

\* RedisMemory.clear_state(key), lines 90-109.  ok = FALSE: redis.delete
\* raises; otherwise it reports the number of keys it removed.
ClearStateCall(key, ok) ==
  LET deleted == IF ok /\ store[key] # NoText THEN 1 ELSE 0
  IN /\ store' = IF ok THEN [store EXCEPT ![key] = NoText] ELSE store
     /\ ret' = StoreRet("clear_state", key, NoText, ok, deleted # 0)
     /\ UNCHANGED SupervisorVars

ListKeysCallRaising(pattern, ok) ==
  /\ \E keys \in Enumerations(RedisKeys(store, pattern)) :
       ret' = IF ok
              THEN StoreRet("list_keys", pattern, NoText, ok, keys)
              ELSE [StoreRet("list_keys", pattern, NoText, ok, <<>>)
                      EXCEPT !.kind = "raised"]
  /\ UNCHANGED <<store, SupervisorVars>>

\* RedisMemory.list_keys(pattern), lines 111-125.  ok = FALSE: redis.keys
\* raises.
ListKeysCall(pattern, ok) ==
  /\ \E keys \in Enumerations(RedisKeys(store, pattern)) :
       ret' = StoreRet("list_keys", pattern, NoText, ok,
                       IF ok THEN keys ELSE <<>>)
  /\ UNCHANGED <<store, SupervisorVars>>

\* an empty database, and a Supervisor that is not called
StoreInit ==
  /\ store = [key \in StoreKeys |-> NoText]
  /\ ret = NoRet
  /\ graph = NoGraph
  /\ current_workflow_id = None
  /\ generated = 0
  /\ stateGraphGet = "plan"
  /\ agents = Agents
  /\ calls = EmptyBag
  /\ started = 0
  /\ failures = 0
  /\ faults = 0

StoreNext ==
  \/ \E key \in StoreKeys, state \in PyStates, ok \in BOOLEAN :
       SaveStateCall(key, state, ok)
  \/ \E key \in StoreKeys, ok \in BOOLEAN : LoadStateCall(key, ok)
  \/ \E key \in StoreKeys, ok \in BOOLEAN : ClearStateCall(key, ok)
  \/ \E pattern \in Patterns, ok \in BOOLEAN : ListKeysCall(pattern, ok)

StoreSpec == StoreInit /\ [][StoreNext]_vars

\* ------------------------------------------- agent-local state, on its own
\* BaseAgent.save_state / load_state (src/agents/base_agent.py, lines
\* 115-140): the key is the agent's name, a colon and the state id.
AgentKeyWithoutName(name, state_id) == state_id

AgentKey(name, state_id) == name \o ":" \o state_id

AgentSaveState(s, name, state_id, state, ok) ==
  SaveState(s, AgentKey(name, state_id), state, ok)

AgentLoadState(s, name, state_id, ok) ==
  LoadState(s, AgentKey(name, state_id), ok)

\* the name each agent class hands to BaseAgent.__init__
AgentClassNames ==
  {"research_agent", "summarizer_agent", "code_agent", "evaluator_agent",
   "planner_agent"}

\* the state id is the caller's task_id: one that reads like the key of a
\* workflow
StateIds == {WorkflowKey(GenerateWorkflowId(0))}

AgentStateKeys ==
  {WorkflowKey(GenerateWorkflowId(0))}
    \cup StateIds
    \cup {AgentKey(name, state_id) : name \in AgentClassNames,
                                     state_id \in StateIds}

\* what an agent and what the Supervisor saves
AgentStates == {[task |-> "task_a", plan |-> EmptyPlan]}

WorkflowStates == {InitialState(EmptyPlan, "task_a")}

\* agent.save_state(state_id, state)
AgentSaveStateCall(name, state_id, state, ok) ==
  /\ store' = AgentSaveState(store, name, state_id, state, ok)
  /\ ret' = [op |-> "agent.save_state", name |-> name, id |-> state_id,
             state |-> state, ok |-> ok, value |-> ok]
  /\ UNCHANGED SupervisorVars

\* agent.load_state(state_id)
AgentLoadStateCall(name, state_id, ok) ==
  /\ ret' = [op |-> "agent.load_state", name |-> name, id |-> state_id,
             state |-> NoDoc, ok |-> ok,
             value |-> AgentLoadState(store, name, state_id, ok)]
  /\ UNCHANGED <<store, SupervisorVars>>

\* memory.save_workflow_state(workflow_id, state)
SaveWorkflowStateCall(workflow_id, state, ok) ==
  /\ store' = SaveWorkflowState(store, workflow_id, state, ok)
  /\ ret' = [op |-> "save_workflow_state", name |-> None,
             id |-> workflow_id, state |-> state, ok |-> ok, value |-> ok]
  /\ UNCHANGED SupervisorVars

\* memory.get_workflow_state(workflow_id)
GetWorkflowStateCall(workflow_id, ok) ==
  /\ ret' = [op |-> "get_workflow_state", name |-> None,
             id |-> workflow_id, state |-> NoDoc, ok |-> ok,
             value |-> GetWorkflowState(store, workflow_id, ok)]
  /\ UNCHANGED <<store, SupervisorVars>>

AgentStateInit ==
  /\ store = [key \in AgentStateKeys |-> NoDoc]
  /\ ret = NoRet
  /\ graph = NoGraph
  /\ current_workflow_id = None
  /\ generated = 0
  /\ stateGraphGet = "plan"
  /\ agents = Agents
  /\ calls = EmptyBag
  /\ started = 0
  /\ failures = 0
  /\ faults = 0

AgentStateNext ==
  \/ \E name \in AgentClassNames, state_id \in StateIds,
        state \in AgentStates, ok \in BOOLEAN :
       AgentSaveStateCall(name, state_id, state, ok)
  \/ \E name \in AgentClassNames, state_id \in StateIds, ok \in BOOLEAN :
       AgentLoadStateCall(name, state_id, ok)
  \/ \E state \in WorkflowStates, ok \in BOOLEAN :
       SaveWorkflowStateCall(GenerateWorkflowId(0), state, ok)
  \/ \E ok \in BOOLEAN : GetWorkflowStateCall(GenerateWorkflowId(0), ok)

AgentStateSpec == AgentStateInit /\ [][AgentStateNext]_vars

\* ------------------------------------------------ the HTTP API, on its own
\* src/app/api.py: get_memory and submit_feedback against the store.  An
\* HTTPException is an Exception: one raised inside the try of an endpoint
\* is caught by that endpoint's "except Exception", which raises
\* HTTPException(500) with str(e) as its detail.
HttpException(status_code, detail) ==
  [kind |-> "raised", status_code |-> status_code, detail |-> detail]

HttpOk(body) == [kind |-> "returned", status_code |-> 200, body |-> body]

\* lines 123-128 and 159-164: the except branch of an endpoint
EndpointExcept(r) ==
  IF r.kind = "raised"
  THEN HttpException(500, <<ToString(r.status_code) \o ":">> \o r.detail)
  ELSE r

NoStateMsg(key) == <<"No state found for key:", key>>

FeedbackRecorded == [message |-> "Feedback recorded successfully"]

\* Python's None where a rating is expected (FeedbackRequest.rating)
NoRating == -1

Ratings == {NoRating, 4}

Feedbacks == {[quality |-> "good"]}

\* the records the API may find: those a Supervisor and a planner leave
ApiPlan == [task |-> "task_a", steps |-> 1, agents_involved |-> UnknownAgents]

ApiWorkflowId == GenerateWorkflowId(0)

ApiWorkflowStates ==
  {InitialState(ApiPlan, "task_a"),
   CompletedState(InitialState(ApiPlan, "task_a"),
                  [step_0 |-> [agent |-> "summarizer_agent", saw |-> {}]]),
   FailedState(ErrorMsg(NoGraphMsg))}

ApiAgentKey == AgentKey("planner_agent", "latest")

ApiKeys == {WorkflowKey(ApiWorkflowId), ApiAgentKey}

\* GET /api/v1/memory/{key}, lines 103-128.  ok = FALSE: the backend fails
\* and load_state returns None.
GetMemory(key, ok) ==
  LET state == LoadState(store, key, ok)
      r == IF state = NoDoc
           THEN HttpException(404, NoStateMsg(key))
           ELSE HttpOk(state)
  IN /\ ret' = [op |-> "get_memory", key |-> key, ok |-> ok,
                response |-> EndpointExcept(r)]
     /\ UNCHANGED <<store, SupervisorVars>>

\* POST /api/v1/feedback/, lines 130-164.  The endpoint awaits nothing
\* between its load and its save.
SubmitFeedback(workflow_id, feedback, rating, loadOk, saveOk) ==
  LET state == GetWorkflowState(store, workflow_id, loadOk)
      merged == Put(Put(state, "feedback", feedback), "rating", rating)
      r == IF state = NoDoc
           THEN HttpException(404, NotFoundMsg(workflow_id))
           ELSE HttpOk(FeedbackRecorded)
  IN /\ store' = IF state = NoDoc
                 THEN store
                 ELSE SaveWorkflowState(store, workflow_id, merged, saveOk)
     /\ ret' = [op |-> "submit_feedback", workflow_id |-> workflow_id,
                feedback |-> feedback, rating |-> rating,
                loadOk |-> loadOk, saveOk |-> saveOk,
                response |-> EndpointExcept(r)]
     /\ UNCHANGED SupervisorVars

ApiInit ==
  /\ store \in [ApiKeys -> {NoDoc} \cup ApiWorkflowStates \cup AgentStates]
  /\ store[WorkflowKey(ApiWorkflowId)] \in {NoDoc} \cup ApiWorkflowStates
  /\ store[ApiAgentKey] \in {NoDoc} \cup AgentStates
  /\ ret = NoRet
  /\ graph = NoGraph
  /\ current_workflow_id = None
  /\ generated = 0
  /\ stateGraphGet = "plan"
  /\ agents = Agents
  /\ calls = EmptyBag
  /\ started = 0
  /\ failures = 0
  /\ faults = 0

ApiNext ==
  \/ \E key \in ApiKeys, ok \in BOOLEAN : GetMemory(key, ok)
  \/ \E feedback \in Feedbacks, rating \in Ratings, loadOk \in BOOLEAN,
        saveOk \in BOOLEAN :
       SubmitFeedback(ApiWorkflowId, feedback, rating, loadOk, saveOk)

ApiSpec == ApiInit /\ [][ApiNext]_vars

\* ------------------------------------------------------- agents' execute
\* PlannerAgent.execute (planner_agent.py) and CodeAgent.execute
\* (code_agent.py) over the store, with the language model's behaviour drawn.

\* `not v` for a str or None
Falsy(v) == v = None \/ v = ""

\* the dicts a caller may pass: any subset of the keys of `values`, each key
\* with one of its values
InputsOver(values) ==
  UNION {{d \in [S -> UNION {values[k] : k \in S}] :
            \A k \in S : d[k] \in values[k]} : S \in SUBSET DOMAIN values}

PlannerInputs == InputsOver([task |-> {"", "task_a"}, task_id |-> {"t1"}])

CodeInputs ==
  InputsOver([type |-> {"generate", "review", "optimize", "deploy"},
              requirements |-> {"req_a"},
              code |-> {"code_a"}])

\* the text the language model answers with, and the text of its exception
LlmReply == "llm_text"

LlmErrorText == <<"model unavailable">>

AllAttemptsFailedMsg == <<"All LLM call attempts failed">>

\* what llm.agenerate does at one attempt: it raises, or it answers a text
Raises == "raises"

\* BaseAgent._call_llm, lines 90-99, from the iteration `attempt` of its
\* loop on; replies[i] is what the i-th call of llm.agenerate does.
\* attempts counts the calls of llm.agenerate made.
RECURSIVE CallLlmFrom(_, _, _)
CallLlmFrom(attempt, max_retries, replies) ==
  IF attempt >= max_retries
  THEN [raised |-> TRUE, error |-> AllAttemptsFailedMsg,
        attempts |-> attempt]
  ELSE IF replies[attempt + 1] # Raises
  THEN [raised |-> FALSE, text |-> replies[attempt + 1],
        attempts |-> attempt + 1]
  ELSE IF attempt = max_retries - 1
  THEN [raised |-> TRUE, error |-> LlmErrorText, attempts |-> attempt + 1]
  ELSE CallLlmFrom(attempt + 1, max_retries, replies)

\* an agent that gives up after its first attempt
CallLlmLoopWithoutRetry(max_retries, replies) ==
  CallLlmFrom(0, IF max_retries > 0 THEN 1 ELSE 0, replies)

\* BaseAgent._call_llm, lines 77-99
CallLlmLoop(max_retries, replies) == CallLlmFrom(0, max_retries, replies)

\* _call_llm of an agent built with the default max_retries (line 28),
\* where the model refuses `failing` attempts before it answers LlmReply
CallLlm(failing) ==
  LET llm == CallLlmLoop(MAX_RETRIES,
                         [i \in 1..MAX_RETRIES |->
                            IF i <= failing THEN Raises ELSE LlmReply])
  IN [raised |-> llm.raised, attempts |-> llm.attempts]

\* what one execute did: how it ended, its response, the attempts it made at
\* the language model and the save_state calls it made, <<state_id, state>>
Outcome(response, attempts, saved) ==
  [kind |-> "returned", response |-> response, attempts |-> attempts,
   saved |-> saved]

\* PlannerAgent._structure_plan: the task and the text; the fields computed
\* from the text alone (agents_involved, estimated_steps, timestamp) are
\* those of Plans above and play no part here.
StructurePlan(plan_text, task) == [task |-> task, plan |-> plan_text]

NoTaskMsg == <<"No task provided for planning">>

\* PlannerAgent.execute, lines 36-75
PlannerExecute(input_data, failing) ==
  LET task == Get(input_data, "task", None)
      llm == CallLlm(failing)
      plan == StructurePlan(LlmReply, task)
  IN IF Falsy(task)
     THEN Outcome(FormatAgentResponse(FALSE, EmptyDict, NoTaskMsg), 0, << >>)
     ELSE IF llm.raised
     THEN Outcome(FormatAgentResponse(FALSE, EmptyDict,
                                      PlanningFailedMsg(LlmErrorText)),
                  llm.attempts, << >>)
     ELSE Outcome(FormatAgentResponse(TRUE, plan, NoText), llm.attempts,
                  << <<Get(input_data, "task_id", "latest"),
                       [task |-> task, plan |-> plan]>> >>)

NoRequirementsMsg == <<"No requirements provided">>
NoCodeForReviewMsg == <<"No code provided for review">>
NoCodeForOptimizationMsg == <<"No code provided for optimization">>
InvalidTaskTypeMsg == <<"Invalid task type">>
CodeFailedMsg(err) == <<"Code agent task failed:">> \o err

\* what a helper of CodeAgent hands to execute: its outcome, or the
\* exception of the language model
Raised(attempts) ==
  [kind |-> "raised", error |-> LlmErrorText, attempts |-> attempts,
   saved |-> << >>]

GenerateCodeCallingFirst(input_data, failing) ==
  LET requirements == Get(input_data, "requirements", None)
      llm == CallLlm(failing)
  IN IF llm.raised
     THEN Raised(llm.attempts)
     ELSE IF Falsy(requirements)
     THEN Outcome(FormatAgentResponse(FALSE, EmptyDict, NoRequirementsMsg),
                  llm.attempts, << >>)
     ELSE Outcome(FormatAgentResponse(TRUE,
                    [code |-> LlmReply, language |-> "python",
                     includes_tests |-> TRUE], NoText),
                  llm.attempts,
                  << <<Get(input_data, "task_id", "latest_generate"),
                       [code |-> LlmReply, language |-> "python",
                        requirements |-> requirements]>> >>)

\* CodeAgent._generate_code, lines 73-124
GenerateCode(input_data, failing) ==
  LET requirements == Get(input_data, "requirements", None)
      llm == CallLlm(failing)
  IN IF Falsy(requirements)
     THEN Outcome(FormatAgentResponse(FALSE, EmptyDict, NoRequirementsMsg),
                  0, << >>)
     ELSE IF llm.raised
     THEN Raised(llm.attempts)
     ELSE Outcome(FormatAgentResponse(TRUE,
                    [code |-> LlmReply, language |-> "python",
                     includes_tests |-> TRUE], NoText),
                  llm.attempts,
                  << <<Get(input_data, "task_id", "latest_generate"),
                       [code |-> LlmReply, language |-> "python",
                        requirements |-> requirements]>> >>)

\* CodeAgent._review_code, lines 126-174
ReviewCode(input_data, failing) ==
  LET code == Get(input_data, "code", None)
      llm == CallLlm(failing)
      review == [review |-> LlmReply, language |-> "python"]
  IN IF Falsy(code)
     THEN Outcome(FormatAgentResponse(FALSE, EmptyDict, NoCodeForReviewMsg),
                  0, << >>)
     ELSE IF llm.raised
     THEN Raised(llm.attempts)
     ELSE Outcome(FormatAgentResponse(TRUE, review, NoText), llm.attempts,
                  << <<Get(input_data, "task_id", "latest_review_code"),
                       review>> >>)

\* CodeAgent._optimize_code, lines 176-227
OptimizeCode(input_data, failing) ==
  LET code == Get(input_data, "code", None)
      llm == CallLlm(failing)
      optimized == [optimized_code |-> LlmReply,
                    goals |-> <<"performance", "readability">>,
                    language |-> "python"]
  IN IF Falsy(code)
     THEN Outcome(FormatAgentResponse(FALSE, EmptyDict,
                                      NoCodeForOptimizationMsg), 0, << >>)
     ELSE IF llm.raised
     THEN Raised(llm.attempts)
     ELSE Outcome(FormatAgentResponse(TRUE, optimized, NoText),
                  llm.attempts,
                  << <<Get(input_data, "task_id", "latest_optimize"),
                       optimized>> >>)

\* CodeAgent.execute, lines 42-71
CodeExecute(input_data, failing) ==
  LET task_type == Get(input_data, "type", "generate")
      r == IF task_type = "generate" THEN GenerateCode(input_data, failing)
           ELSE IF task_type = "review" THEN ReviewCode(input_data, failing)
           ELSE OptimizeCode(input_data, failing)
  IN IF task_type \notin {"generate", "review", "optimize"}
     THEN Outcome(FormatAgentResponse(FALSE, EmptyDict, InvalidTaskTypeMsg),
                  0, << >>)
     ELSE IF r.kind = "raised"
     THEN Outcome(FormatAgentResponse(FALSE, EmptyDict,
                                      CodeFailedMsg(r.error)),
                  r.attempts, r.saved)
     ELSE r

\* the state ids the two agents save under: the planner's callers name a
\* task_id or none, the code agent's callers none
ExecuteStateIds ==
  [planner_agent |-> {"latest", "t1"},
   code_agent |-> {"latest_generate", "latest_review_code",
                   "latest_optimize"}]

ExecuteKeys ==
  {AgentKey(name, state_id) :
     name \in {"planner_agent"}, state_id \in ExecuteStateIds.planner_agent}
    \cup {AgentKey(name, state_id) :
            name \in {"code_agent"}, state_id \in ExecuteStateIds.code_agent}

\* the store after the save_state calls of one execute; ok = FALSE: the
\* backend refuses them, and the agent does not look at the result
AfterSaves(s, name, saved, ok) ==
  IF saved = << >>
  THEN s
  ELSE AgentSaveState(s, name, saved[1][1], saved[1][2], ok)

\* await planner.execute(input_data)
PlannerExecuteCall(input_data, failing, ok) ==
  LET out == PlannerExecute(input_data, failing)
  IN /\ store' = AfterSaves(store, "planner_agent", out.saved, ok)
     /\ ret' = [op |-> "execute", name |-> "planner_agent",
                input_data |-> input_data, ok |-> ok, outcome |-> out]
     /\ UNCHANGED SupervisorVars

\* await code_agent.execute(input_data)
CodeExecuteCall(input_data, failing, ok) ==
  LET out == CodeExecute(input_data, failing)
  IN /\ store' = AfterSaves(store, "code_agent", out.saved, ok)
     /\ ret' = [op |-> "execute", name |-> "code_agent",
                input_data |-> input_data, ok |-> ok, outcome |-> out]
     /\ UNCHANGED SupervisorVars

AgentExecuteInit ==
  /\ store = [key \in ExecuteKeys |-> NoDoc]
  /\ ret = NoRet
  /\ graph = NoGraph
  /\ current_workflow_id = None
  /\ generated = 0
  /\ stateGraphGet = "plan"
  /\ agents = Agents
  /\ calls = EmptyBag
  /\ started = 0
  /\ failures = 0
  /\ faults = 0

AgentExecuteNext ==
  \/ \E input_data \in PlannerInputs, failing \in {0, MAX_RETRIES},
        ok \in BOOLEAN :
       PlannerExecuteCall(input_data, failing, ok)
  \/ \E input_data \in CodeInputs, failing \in {0, MAX_RETRIES},
        ok \in BOOLEAN :
       CodeExecuteCall(input_data, failing, ok)

AgentExecuteSpec == AgentExecuteInit /\ [][AgentExecuteNext]_vars

\* ------------------------------------------------------------- scheduling
\* The process while it lives: every step but its restart.
LiveNext ==
  \/ \E task \in Tasks : CreateWorkflow(task)
  \/ \E f \in Suspended : PlannerFails(f)
  \/ \E f \in Suspended, plan \in Plans : PlannerReturns(f, plan)
  \/ \E workflow_id \in GeneratedIds \cup {ForeignId}, loadOk \in BOOLEAN :
       ExecuteWorkflow(workflow_id, loadOk)
  \/ \E f \in Suspended, out \in AgentOutcomes : AgentReturns(f, out)
  \/ \E f \in Suspended : SleepEnds(f)

\* What the event loop owes a suspended coroutine: the awaited agent call
\* (line 246, and the planner's, line 129) comes back, returning or
\* raising, and the awaited asyncio.sleep (line 324) ends.
AwaitsEnd ==
  /\ WF_vars(\E f \in Suspended :
               \/ PlannerFails(f)
               \/ \E plan \in Plans : PlannerReturns(f, plan))
  /\ WF_vars(\E f \in Suspended, out \in AgentOutcomes : AgentReturns(f, out))
  /\ WF_vars(\E f \in Suspended : SleepEnds(f))

LiveSpec == Init /\ [][LiveNext]_vars /\ AwaitsEnd

\* ------------------------------------------- the API beside the Supervisor
\* api.py holds one Supervisor and one RedisMemory (lines 46-62): a
\* POST /feedback is served by the same event loop while calls of the
\* Supervisor are suspended in their awaits.
FeedbackNext ==
  \/ LiveNext
  \/ \E workflow_id \in GeneratedIds, feedback \in Feedbacks,
        loadOk \in BOOLEAN, saveOk \in BOOLEAN :
       SubmitFeedback(workflow_id, feedback, 4, loadOk, saveOk)

FeedbackSpec == Init /\ [][FeedbackNext]_vars

\* ------------------------------------------------- save_state with a ttl
\* The database with the expiry of its keys: each key holds the pair of its
\* text and its time to live as redis reports it (TTL key): -2 when the key
\* holds nothing, -1 when it holds a value that does not expire.
NoKey == <<NoText, -2>>

Persistent(text) == <<text, -1>>

\* Python's None where a ttl is expected
NoTtl == -1

Ttls == {NoTtl, 0, 60}

\* redis.set(key, value): the value replaces the old one and the key's
\* expiry is discarded
RedisSet(s, key, text) == [s EXCEPT ![key] = Persistent(text)]

\* redis.expire(key, ttl)
RedisExpire(s, key, ttl) == [s EXCEPT ![key] = <<s[key][1], ttl>>]

\* the states saved here: two that json.dumps writes and one it refuses
TtlStates ==
  {EmptyPyDict, PyDict([k \in {PyStr("a")} |-> PyStr("a")]),
   PyDict([k \in {PyStr("a")} |-> PySet({PyStr("a")})])}

\* RedisMemory.save_state(key, state, ttl), lines 45-68.  setOk = FALSE:
\* redis.set raises; expireOk = FALSE: redis.expire raises.
SaveStateTtlCall(key, state, ttl, setOk, expireOk) ==
  LET serialized_state == JsonDumps(state)
      wasSet == ~serialized_state.raised /\ setOk
      afterSet == IF wasSet
                  THEN RedisSet(store, key, serialized_state.text)
                  ELSE store
      expires == wasSet /\ ttl # NoTtl /\ ttl # 0
  IN /\ store' = IF expires /\ expireOk
                 THEN RedisExpire(afterSet, key, ttl)
                 ELSE afterSet
     /\ ret' = [op |-> "save_state", key |-> key, state |-> state,
                ttl |-> ttl, setOk |-> setOk, expireOk |-> expireOk,
                kind |-> "returned",
                value |-> (wasSet /\ (expires => expireOk))]
     /\ UNCHANGED SupervisorVars

\* the time to live of a key runs out: redis removes the key
KeyExpires(key) ==
  /\ store[key][2] > 0
  /\ store' = [store EXCEPT ![key] = NoKey]
  /\ ret' = [op |-> "expired", key |-> key]
  /\ UNCHANGED SupervisorVars

TtlInit ==
  /\ store = [key \in StoreKeys |-> NoKey]
  /\ ret = NoRet
  /\ graph = NoGraph
  /\ current_workflow_id = None
  /\ generated = 0
  /\ stateGraphGet = "plan"
  /\ agents = Agents
  /\ calls = EmptyBag
  /\ started = 0
  /\ failures = 0
  /\ faults = 0

TtlNext ==
  \/ \E key \in StoreKeys, state \in TtlStates, ttl \in Ttls,
        setOk \in BOOLEAN, expireOk \in BOOLEAN :
       SaveStateTtlCall(key, state, ttl, setOk, expireOk)
  \/ \E key \in StoreKeys : KeyExpires(key)

TtlSpec == TtlInit /\ [][TtlNext]_vars

\* ------------------------------------------------------------- _call_llm
\* the agents built: with max_retries from 0 up
MaxRetriesValues == 0..MaxLlmRetries

\* what the language model does at each of the attempts an agent may make
LlmTexts == {"text_a", "text_b"}

LlmReplies == [1..MaxLlmRetries -> {Raises} \cup LlmTexts]

\* await agent._call_llm(messages)
CallLlmCall(max_retries, replies) ==
  /\ ret' = [op |-> "_call_llm", max_retries |-> max_retries,
             replies |-> replies,
             outcome |-> CallLlmLoop(max_retries, replies)]
  /\ UNCHANGED <<store, SupervisorVars>>

LlmInit ==
  /\ store = [key \in ExecuteKeys |-> NoDoc]
  /\ ret = NoRet
  /\ graph = NoGraph
  /\ current_workflow_id = None
  /\ generated = 0
  /\ stateGraphGet = "plan"
  /\ agents = Agents
  /\ calls = EmptyBag
  /\ started = 0
  /\ failures = 0
  /\ faults = 0

LlmNext ==
  \E max_retries \in MaxRetriesValues, replies \in LlmReplies :
    CallLlmCall(max_retries, replies)

LlmSpec == LlmInit /\ [][LlmNext]_vars

\* --------------------------------------------- the steps of a plan text
\* A text is the sequence of its characters, each a string that holds or
\* names one character.
Bullet == "U+2022"

Digits == {"0", "1", "2", "3", "4", "5", "6", "7", "8", "9"}

\* the characters str.strip() removes
Whitespace == {" ", "\t", "\n"}

\* the lines plan texts are made of here:
\*   "  1. a", "2.", "- b", "<bullet> c", "6. f", "ab", "" and "-  "
PlanLines ==
  {<<" ", " ", "1", ".", " ", "a">>, <<"2", ".">>, <<"-", " ", "b">>,
   <<Bullet, " ", "c">>, <<"6", ".", " ", "f">>, <<"a", "b">>, << >>,
   <<"-", " ", " ">>}

\* lines joined by "\n"
RECURSIVE JoinLines(_)
JoinLines(lines) ==
  IF Len(lines) = 0 THEN << >>
  ELSE IF Len(lines) = 1 THEN lines[1]
  ELSE lines[1] \o <<"\n">> \o JoinLines(Tail(lines))

\* the texts the language model may answer with
PlanTexts ==
  {JoinLines(lines) : lines \in UNION {[1..n -> PlanLines] : n \in 1..MaxLines}}

\* plan_text.split("\n"), line 186: the pieces between the line feeds, one
\* more than there are line feeds
LineFeeds(text) == {i \in 1..Len(text) : text[i] = "\n"}

LineFeedAt(text, k) ==
  IF k = 0 THEN 0
  ELSE IF k > Cardinality(LineFeeds(text)) THEN Len(text) + 1
  ELSE CHOOSE i \in LineFeeds(text) :
         Cardinality({j \in LineFeeds(text) : j <= i}) = k

Split(text) ==
  [k \in 1..(Cardinality(LineFeeds(text)) + 1) |->
     SubSeq(text, LineFeedAt(text, k - 1) + 1, LineFeedAt(text, k) - 1)]

\* line.strip(), line 190
Strip(line) ==
  LET kept == {i \in 1..Len(line) : line[i] \notin Whitespace}
  IN IF kept = {} THEN << >>
     ELSE SubSeq(line, CHOOSE i \in kept : \A j \in kept : i <= j,
                       CHOOSE i \in kept : \A j \in kept : i >= j)

StartsWith(line, prefix) ==
  /\ Len(line) >= Len(prefix)
  /\ SubSeq(line, 1, Len(prefix)) = prefix

\* the tuple handed to line.startswith, line 191
StepPrefixes ==
  {<<"1", ".">>, <<"2", ".">>, <<"3", ".">>, <<"4", ".">>, <<"5", ".">>,
   <<"-">>, <<Bullet>>}

\* lines 191-192: the test a stripped line passes to count as a step
IsStepLine(line) ==
  /\ \E prefix \in StepPrefixes : StartsWith(line, prefix)
  /\ Len(line) > 2

\* PlannerAgent._extract_steps, lines 175-195
PlannerExtractSteps(plan_text) ==
  LET lines == Split(plan_text)
  IN SelectSeq([i \in 1..Len(lines) |-> Strip(lines[i])], IsStepLine)

\* PlannerAgent._structure_plan, line 155: "estimated_steps"
EstimatedSteps(plan_text) == Len(PlannerExtractSteps(plan_text))

\* planner._extract_steps(plan_text), and the nodes the Supervisor makes of
\* a plan of that many steps
ExtractStepsCall(plan_text) ==
  /\ ret' = [op |-> "_extract_steps", plan_text |-> plan_text,
             steps |-> PlannerExtractSteps(plan_text),
             estimated_steps |-> EstimatedSteps(plan_text),
             nodes |-> ExtractNodes([steps |-> EstimatedSteps(plan_text)])]
  /\ UNCHANGED <<store, SupervisorVars>>

StepsInit ==
  /\ store = [key \in ExecuteKeys |-> NoDoc]
  /\ ret = NoRet
  /\ graph = NoGraph
  /\ current_workflow_id = None
  /\ generated = 0
  /\ stateGraphGet = "plan"
  /\ agents = Agents
  /\ calls = EmptyBag
  /\ started = 0
  /\ failures = 0
  /\ faults = 0

StepsNext == \E plan_text \in PlanTexts : ExtractStepsCall(plan_text)

StepsSpec == StepsInit /\ [][StepsNext]_vars

\* ================================================================== claims
ExecFrames == {f \in Suspended : f.op = "execute_workflow"}

ExecReturned == ret.op = "execute_workflow"

CreateReturned == ret.op = "create_workflow" /\ ret.kind = "returned"

\* C5: in every state of an execute_workflow run, the retry count recorded
\* for each node is at most MAX_RETRIES.
C5_RetriesBounded ==
  \A f \in ExecFrames : \A n \in DOMAIN f.retries :
    f.retries[n] <= MAX_RETRIES

\* a run has used up the retries of a node
C5_Witness ==
  \E f \in ExecFrames : \E n \in DOMAIN f.retries :
    f.retries[n] = MAX_RETRIES

\* C10: for a plan with N >= 1 steps, the graph built has the N+1 nodes
\* step_0 .. step_{N-1}, END in this order, the edges step_i -> step_{i+1}
\* and one edge from step_{N-1} to END, and no edge carries a condition.
C10_GraphShape ==
  CreateReturned =>
    LET N == ret.plan.steps
        E == {<<graph.edges[i].from, graph.edges[i].to>> :
                i \in 1..Len(graph.edges)}
    IN /\ N >= 1
       /\ Len(graph.nodes) = N + 1
       /\ \A i \in 1..N : graph.nodes[i] = "step_" \o ToString(i - 1)
       /\ graph.nodes[N + 1] = END
       /\ Len(graph.edges) = N
       /\ E = {<<"step_" \o ToString(i), "step_" \o ToString(i + 1)>> :
                 i \in 0..(N - 2)}
              \cup {<<"step_" \o ToString(N - 1), END>>}
       /\ \A i \in 1..Len(graph.edges) :
            /\ graph.edges[i].cond = None
            /\ graph.edges[i].fallback = None
       /\ \A i \in 1..(N - 1) :
            /\ graph.edges[i].from = "step_" \o ToString(i - 1)
            /\ graph.edges[i].to = "step_" \o ToString(i)

\* a graph was built from a plan of several steps
C10_Witness == CreateReturned /\ ret.plan.steps >= 2 /\ Len(graph.edges) >= 2

\* the step nodes of a graph, and those of the graph a plan stands for
StepNodes(g) == {g.nodes[i] : i \in 1..Len(g.nodes)} \ {END}

PlanStepNodes(plan) == {"step_" \o ToString(i) : i \in 0..(plan.steps - 1)}

\* how often the agent of node n reported failure in the run that returned
AgentFailures(n) ==
  Get(ret.invoked, n, 0) - (IF n \in DOMAIN ret.results THEN 1 ELSE 0)

Tokens(text) == {text[i] : i \in 1..Len(text)}

\* C1: after an execute_workflow(id) that returns success, the record
\* persisted for id has status "completed" and its results hold exactly one
\* entry for every step node of the graph built from that workflow's plan
\* (stated here for the calls whose store operations all went through).
C1_CompletedWithAllResults ==
  (ExecReturned /\ ret.response.success /\ ret.io) =>
    /\ ret.persisted # NoDoc
    /\ ret.persisted.status = "completed"
    /\ "results" \in DOMAIN ret.persisted
    /\ "plan" \in DOMAIN ret.persisted
    /\ DOMAIN ret.persisted.results = PlanStepNodes(ret.persisted.plan)

\* C2: after an execute_workflow(id) that returns a failure for an existing
\* id, the record persisted under id has status "failed" and a non-empty
\* error (stated here for the calls whose store operations all went through).
C2_FailedPersisted ==
  (ExecReturned /\ ~ret.response.success /\ ret.found /\ ret.io) =>
    /\ ret.persisted # NoDoc
    /\ ret.persisted.status = "failed"
    /\ "error" \in DOMAIN ret.persisted
    /\ Len(ret.persisted.error) > 0

\* C3: execute_workflow on an id without a persisted record fails with a
\* not-found error and leaves every persisted record as it was.
C3_UnknownIdLeavesStore ==
  [][ ( /\ ret'.op = "execute_workflow"
        /\ ~ret'.found
        /\ store[WorkflowKey(ret'.workflow_id)] = NoDoc )
      => ( /\ ~ret'.response.success
           /\ ret'.exc = NotFoundMsg(ret'.workflow_id)
           /\ store' = store ) ]_vars

\* C4: execute_workflow never raises to its caller: whatever the id, the
\* agents and the store do, it returns a response, with success = false and
\* a non-empty error whenever the traversal did not complete.
C4_AlwaysReturns ==
  ExecReturned =>
    /\ ret.kind = "returned"
    /\ DOMAIN ret.response = {"success", "data", "error"}
    /\ ret.completed => ret.response.success
    /\ ~ret.completed =>
         /\ ~ret.response.success
         /\ Len(ret.response.error) > 0

\* a call failed after a node ran out of retries while the store refused the
\* write of the failure record
C4_Witness ==
  /\ ExecReturned
  /\ ~ret.completed
  /\ ~ret.io
  /\ \E n \in DOMAIN ret.retries : ret.retries[n] = MAX_RETRIES

\* C6: the k-th retry of a node (k from 1) first sets the node's counter to
\* k and then sleeps 2^k before the handler runs again; no attempt after the
\* first starts without that sleep.
C6_Backoff ==
  \A f \in ExecFrames :
    /\ \A n \in DOMAIN f.retries :
         /\ n \in DOMAIN f.delays
         /\ Len(f.delays[n]) = f.retries[n]
         /\ \A k \in 1..Len(f.delays[n]) : f.delays[n][k] = 2^k
    /\ \A n \in DOMAIN f.entered :
         f.entered[n] <= Get(f.retries, n, 0) + 1
    /\ f.pc = "sleep" =>
         /\ f.delay = 2^(f.retries[f.node])
         /\ f.entered[f.node] = f.retries[f.node]
    /\ f.pc = "agent" =>
         f.entered[f.node] = Get(f.retries, f.node, 0) + 1

\* a node sleeps before its last retry, after the sleeps 2 and 4
C6_Witness ==
  \E f \in ExecFrames :
    /\ f.pc = "sleep"
    /\ f.retries[f.node] = MAX_RETRIES
    /\ f.delays[f.node] = <<2, 4, 8>>

\* the run that returned: the agent of n failed twice and then succeeded,
\* every other agent succeeded at once, and nothing else went wrong
C7_Scenario(n) ==
  /\ ExecReturned
  /\ ret.g # NoGraph
  /\ n \in StepNodes(ret.g)
  /\ n \in DOMAIN ret.results
  /\ AgentFailures(n) = 2
  /\ \A m \in StepNodes(ret.g) \ {n} : AgentFailures(m) = 0
  /\ \A m \in DOMAIN ret.entered : ret.entered[m] = Get(ret.invoked, m, 0)
  /\ ret.io

\* C7: if one node's agent fails on its first two attempts and succeeds on
\* the third while every other node succeeds on its first attempt, the
\* workflow ends "completed", results hold an entry for every step node and
\* the retry counter of that node is 2.
C7_TwoFailuresThenSuccess ==
  \A n \in {"step_" \o ToString(i) : i \in 0..(MaxSteps - 1)} :
    C7_Scenario(n) =>
      /\ ret.response.success
      /\ ret.persisted.status = "completed"
      /\ DOMAIN ret.persisted.results = StepNodes(ret.g)
      /\ DOMAIN ret.response.data = StepNodes(ret.g)
      /\ ret.retries[n] = 2
      /\ \A m \in StepNodes(ret.g) \ {n} : Get(ret.retries, m, 0) = 0

\* the scenario with the second step as the failing node
C7_Witness ==
  /\ C7_Scenario("step_1")
  /\ ret.retries["step_1"] = 2
  /\ "step_0" \in DOMAIN ret.results

\* C8: if the agent of step_0 fails until the retries of step_0 are used up
\* (the first attempt and each of the MAX_RETRIES retries), the workflow ends
\* "failed", its results are empty, no later node is executed and the error
\* recorded names step_0.
C8_FirstNodeFails ==
  (ExecReturned /\ ret.g # NoGraph
     /\ AgentFailures("step_0") = MAX_RETRIES + 1)
    => /\ ~ret.response.success
       /\ ret.results = EmptyDict
       /\ DOMAIN ret.entered = {"step_0"}
       /\ "step_0" \in Tokens(ret.response.error)
       /\ ret.io => /\ ret.persisted.status = "failed"
                    /\ "step_0" \in Tokens(ret.persisted.error)

\* C9: a node for which no agent of the plan is registered fails at once:
\* it is not retried, its counter stays 0 and no backoff sleep happens.
C9_UnresolvedAgentFailsFast ==
  /\ \A f \in ExecFrames :
       (f.node # None /\ f.exc = NoAgentMsg(f.node)) =>
         /\ f.pc # "sleep"
         /\ Get(f.retries, f.node, 0) = 0
  /\ (ExecReturned /\ \E n \in DOMAIN ret.entered : ret.exc = NoAgentMsg(n)) =>
       /\ \A n \in DOMAIN ret.entered : Get(ret.retries, n, 0) = 0
       /\ ret.delays = EmptyDict

\* C11: _build_graph on a plan without extractable steps fails with a
\* PlanStructureError, and with no other kind of fault.
C11_ZeroStepsPlanStructureError ==
  (ret.op = "create_workflow" /\ ret.plan # NoDoc
     /\ Len(ExtractSteps(ret.plan)) = 0)
    => /\ ret.kind = "raised"
       /\ BuildGraph(ret.plan).raised
       /\ BuildGraph(ret.plan).type = "PlanStructureError"

\* C12: every graph built has no node twice, only edges from a node to the
\* node added next (so no cycle), exactly one edge out of every step node and
\* none out of END, hence one path from step_0 to END; a traversal without
\* retries enters every step node once, each after exactly its predecessors.
C12_OnePathInOrder ==
  /\ graph # NoGraph =>
       LET n == Len(graph.nodes)
           E == 1..Len(graph.edges)
       IN /\ \A i, j \in 1..n : i # j => graph.nodes[i] # graph.nodes[j]
          /\ graph.nodes[1] = "step_0"
          /\ graph.nodes[n] = END
          /\ \A e \in E : \E i \in 1..(n - 1) :
               /\ graph.edges[e].from = graph.nodes[i]
               /\ graph.edges[e].to = graph.nodes[i + 1]
          /\ \A i \in 1..(n - 1) :
               Cardinality({e \in E : graph.edges[e].from = graph.nodes[i]})
                 = 1
  /\ (ExecReturned /\ ret.completed /\ DOMAIN ret.retries = {}) =>
       LET n == Len(ret.g.nodes)
       IN /\ DOMAIN ret.entered = StepNodes(ret.g)
          /\ \A i \in 1..(n - 1) :
               /\ ret.entered[ret.g.nodes[i]] = 1
               /\ ret.results[ret.g.nodes[i]].saw
                    = {ret.g.nodes[j] : j \in 1..(i - 1)}

\* a traversal of a graph of several steps came back without any retry
C12_Witness ==
  /\ ExecReturned
  /\ ret.completed
  /\ DOMAIN ret.retries = {}
  /\ Cardinality(StepNodes(ret.g)) >= 2
  /\ graph = ret.g

\* the index i of the node named step_i
StepIndex(n) == CHOOSE i \in 0..MaxSteps : n = "step_" \o ToString(i)

\* C15: while a run is at node step_k, every node of its graph with a lower
\* index has completed and none with a higher index has begun; after a run
\* has failed at a node, no node with a higher index was ever entered.
C15_StepsInOrder ==
  /\ \A f \in ExecFrames : \A m \in StepNodes(f.g) :
       /\ StepIndex(m) < StepIndex(f.node) => m \in DOMAIN f.results
       /\ StepIndex(m) >= StepIndex(f.node) => m \notin DOMAIN f.results
       /\ StepIndex(m) > StepIndex(f.node) => m \notin DOMAIN f.entered
  /\ (ExecReturned /\ ret.g # NoGraph /\ ~ret.completed) =>
       \A m \in DOMAIN ret.entered \ DOMAIN ret.results :
         \A later \in StepNodes(ret.g) :
           StepIndex(later) > StepIndex(m) =>
             later \notin DOMAIN ret.entered

\* step_0 has failed for good after all its retries, and step_1 never began
C15_Witness ==
  /\ ExecReturned
  /\ ~ret.completed
  /\ ret.g # NoGraph
  /\ "step_1" \in StepNodes(ret.g)
  /\ DOMAIN ret.entered = {"step_0"}
  /\ Get(ret.invoked, "step_0", 0) = MAX_RETRIES + 1

\* C13: the persisted status of a workflow moves only along initialized ->
\* running -> completed or running -> failed: when execute_workflow is
\* called for a persisted workflow, "running" is persisted before a node
\* runs, and "completed" or "failed" replaces no status but "running".
C13_StatusPath ==
  [][ /\ \A f \in ExecFrames' :
           (started' = started + 1 /\ f \notin Suspended) =>
             store'[WorkflowKey(f.workflow_id)].status = "running"
      /\ \A k \in Keys :
           ( /\ store'[k] # store[k]
             /\ store'[k] # NoDoc
             /\ store'[k].status \in {"completed", "failed"} )
           => (store[k] # NoDoc /\ store[k].status = "running") ]_vars

\* C14: when an execute_workflow call on a persisted workflow is over, the
\* record of that workflow holds the terminal status of the call:
\* "completed" when the traversal came back, "failed" when it did not, also
\* when the store refused a write.
C14_TerminalStatusWritten ==
  (ExecReturned /\ ret.found) =>
    /\ ret.persisted # NoDoc
    /\ ret.persisted.status =
         (IF ret.completed THEN "completed" ELSE "failed")

\* C16: a create_workflow that returns an id has run no step (no node
\* handler was entered, no agent of a step reported), and the store differs
\* from the one before the return in exactly one record: the new one under
\* the returned id, {status: "initialized", plan, task}.
C16_CreatePersistsOneRecord ==
  [][ (ret'.op = "create_workflow" /\ ret'.kind = "returned") =>
        /\ store[WorkflowKey(ret'.value)] = NoDoc
        /\ store' = [store EXCEPT ![WorkflowKey(ret'.value)] =
                       InitialState(ret'.plan, ret'.plan.task)]
        /\ ExecFrames' = ExecFrames
        /\ failures' = failures ]_vars

\* C17: a create_workflow that got no plan (the planner reported failure,
\* or none is registered) raises a planning error, returns no id, and
\* neither its step up to the planner call nor its step after the planner's
\* report changes the store, the graph or the current workflow id.
C17_NoPlanNoChange ==
  [][ ( \/ ret'.op = "create_workflow" /\ ret'.plan = NoDoc
        \/ \E f \in BagToSet(calls' (-) calls) : f.pc = "plan" ) =>
        /\ ret'.op = "create_workflow" => ret'.kind = "raised"
        /\ ret'.op = "create_workflow" =>
             /\ ret'.value = None
             /\ ret'.error = (IF "planner_agent" \in AgentNames
                              THEN PlanningFailedMsg(AgentErrorText)
                              ELSE NoPlannerMsg)
        /\ store' = store
        /\ graph' = graph
        /\ current_workflow_id' = current_workflow_id
        /\ generated' = generated ]_vars

\* the planner failed for a Supervisor that holds the graph and the id of a
\* workflow created before, whose record is in the store
C17_Witness ==
  /\ ret.op = "create_workflow"
  /\ ret.plan = NoDoc
  /\ ret.error = PlanningFailedMsg(AgentErrorText)
  /\ graph # NoGraph
  /\ current_workflow_id # None
  /\ store[WorkflowKey(current_workflow_id)] # NoDoc

\* C18: with the records of two workflows created on one Supervisor in the
\* store, the return of an execute_workflow of one of them, whose store
\* operations all went through, changes no record but the one of its own
\* workflow, and leaves that record with the
\* terminal status of the call and, when completed, with one result for
\* every step of its own plan.
C18_WorkflowsIsolated ==
  [][ ( /\ ret'.op = "execute_workflow"
        /\ ret'.found
        /\ ret'.io
        /\ Cardinality({k \in Keys : store[k] # NoDoc}) >= 2 )
      => ( /\ \A k \in Keys \ {WorkflowKey(ret'.workflow_id)} :
                store'[k] = store[k]
           /\ ret'.persisted # NoDoc
           /\ ret'.persisted.status =
                (IF ret'.completed THEN "completed" ELSE "failed")
           /\ ret'.completed =>
                DOMAIN ret'.persisted.results
                  = PlanStepNodes(ret'.persisted.plan) ) ]_vars

\* a document in the sense of the specification: a JSON structure, that is a
\* map with string keys, a sequence (list), a string, a number, a boolean
\* or null, of such parts throughout
RECURSIVE JsonCompatible(_)
JsonCompatible(o) ==
  CASE Type(o) \in {"str", "int", "bool", "NoneType"} -> TRUE
    [] Type(o) = "list" ->
         \A i \in 1..Len(Value(o)) : JsonCompatible(Value(o)[i])
    [] Type(o) = "dict" ->
         \A k \in DOMAIN Value(o) :
           Type(k) = "str" /\ JsonCompatible(Value(o)[k])
    [] OTHER -> FALSE

\* C19: with a working backend, save_state of a document reports success
\* and a load_state of the same key right after it returns that document;
\* clear_state of a key that holds a value reports success, and a
\* load_state of the same key right after a clear_state returns None.
C19_StoreRoundTrip ==
  [][ /\ (ret'.op = "save_state" /\ ret'.ok /\ JsonCompatible(ret'.state))
           => ret'.value = TRUE
      /\ (ret'.op = "clear_state" /\ ret'.ok /\ store[ret'.key] # NoText)
           => ret'.value = TRUE
      /\ ( /\ ret.op = "save_state" /\ ret.ok /\ JsonCompatible(ret.state)
           /\ ret'.op = "load_state" /\ ret'.ok /\ ret'.key = ret.key )
           => ret'.value = ret.state
      /\ ( /\ ret.op = "clear_state" /\ ret.ok
           /\ ret'.op = "load_state" /\ ret'.ok /\ ret'.key = ret.key )
           => ret'.value = PyNone ]_vars

\* a document holding a list of a string and a number came back from the
\* key it is stored under
C19_Witness ==
  /\ ret.op = "load_state"
  /\ ret.ok
  /\ ret.value = PyDict([k \in {PyStr("a")} |->
                           PyList(<<PyStr("a"), PyInt(1)>>)])
  /\ store[ret.key] = Encode(ret.value)

\* C20: no RedisMemory method raises: with the backend failing save_state
\* returns False, load_state None, clear_state False and list_keys an empty
\* list.
C20_StoreFailuresReturned ==
  ret.op \in {"save_state", "load_state", "clear_state", "list_keys"} =>
    /\ ret.kind = "returned"
    /\ ~ret.ok =>
         /\ ret.op = "save_state" => ret.value = FALSE
         /\ ret.op = "load_state" => ret.value = PyNone
         /\ ret.op = "clear_state" => ret.value = FALSE
         /\ ret.op = "list_keys" => ret.value = <<>>

\* the backend failed on list_keys while both keys hold a value
C20_Witness ==
  /\ ret.op = "list_keys"
  /\ ~ret.ok
  /\ ret.key = "*"
  /\ \A key \in StoreKeys : store[key] # NoText

\* the keys that belong to workflows, by their form
IsWorkflowKey(key) == \E w \in WorkflowIds : key = "workflow:" \o w

\* C21: an agent's save_state changes the record under "<name>:<state id>"
\* and no other, so no workflow record; save_workflow_state changes the
\* record under "workflow:<id>" and no other, so no agent-local record; the
\* loads read from these same keys.
C21_SeparateKeys ==
  [][ /\ ret'.op = "agent.save_state" =>
           /\ \A key \in DOMAIN store :
                key # ret'.name \o ":" \o ret'.id => store'[key] = store[key]
           /\ \A key \in DOMAIN store :
                IsWorkflowKey(key) => store'[key] = store[key]
           /\ ret'.ok => store'[ret'.name \o ":" \o ret'.id] = ret'.state
      /\ ret'.op = "save_workflow_state" =>
           /\ \A key \in DOMAIN store :
                key # "workflow:" \o ret'.id => store'[key] = store[key]
           /\ ret'.ok => store'["workflow:" \o ret'.id] = ret'.state
      /\ (ret'.op = "agent.load_state" /\ ret'.ok) =>
           ret'.value = store[ret'.name \o ":" \o ret'.id]
      /\ (ret'.op = "get_workflow_state" /\ ret'.ok) =>
           ret'.value = store["workflow:" \o ret'.id] ]_vars

\* an agent has saved under a state id that reads like a workflow key,
\* next to the record of that workflow
C21_Witness ==
  /\ ret.op = "agent.save_state"
  /\ ret.ok
  /\ IsWorkflowKey(ret.id)
  /\ store[ret.id] \in WorkflowStates
  /\ store[ret.name \o ":" \o ret.id] = ret.state

\* the step nodes of g that come before node n
Earlier(g, n) == {m \in StepNodes(g) : StepIndex(m) < StepIndex(n)}

\* C22: the input handed to the agent of step_i holds the results of every
\* node step_0 .. step_{i-1} of the run, on the first attempt and on every
\* retry: so each result of a run was computed by an agent that was shown
\* the results of all earlier nodes.
C22_LaterAgentsSeeEarlierResults ==
  /\ \A f \in ExecFrames :
       f.pc = "agent" =>
         Earlier(f.g, f.node) \subseteq DOMAIN AgentInput(f).results
  /\ (ExecReturned /\ ret.g # NoGraph) =>
       \A n \in DOMAIN ret.results :
         Earlier(ret.g, n) \subseteq ret.results[n].saw

\* the second step succeeded on a retry, having been shown the result of
\* the first
C22_Witness ==
  /\ ExecReturned
  /\ ret.completed
  /\ "step_1" \in DOMAIN ret.results
  /\ Get(ret.retries, "step_1", 0) >= 1
  /\ "step_0" \in ret.results["step_1"].saw

\* the step takes the coroutine f from its agent call to the call of the
\* next node's agent, as g
SucceededInto(f, g) ==
  /\ f.pc = "agent"
  /\ g.pc = "agent"
  /\ g.node # f.node
  /\ calls' = Others(f) (+) SetToBag({g})

\* the step ends the run of f with the success of its last node's agent
SucceededLast(f) ==
  /\ f.pc = "agent"
  /\ calls' = Others(f)
  /\ ret'.op = "execute_workflow"
  /\ ret'.completed

\* C23: the success of a node's agent sets results[node] to the data the
\* agent returned and changes nothing else of the execution state: the
\* results of the other nodes, every retry counter and the workflow state
\* (plan, task, status) stay as they were.
C23_SuccessSetsOneResult ==
  [][ /\ \A f \in Suspended : \A g \in Suspended' :
           SucceededInto(f, g) =>
             /\ g.results = Put(f.results, f.node, AgentData(f))
             /\ \A m \in DOMAIN f.results : g.results[m] = f.results[m]
             /\ g.retries = f.retries
             /\ g.state = f.state
             /\ g.workflow_id = f.workflow_id
      /\ \A f \in Suspended :
           SucceededLast(f) =>
             /\ ret'.results = Put(f.results, f.node, AgentData(f))
             /\ \A m \in DOMAIN f.results : ret'.results[m] = f.results[m]
             /\ ret'.retries = f.retries ]_vars

\* the first node succeeded after a retry and the run is at the second
\* node, the counter of the first still in place
C23_Witness ==
  \E g \in ExecFrames :
    /\ g.pc = "agent"
    /\ g.node = "step_1"
    /\ "step_0" \in DOMAIN g.results
    /\ Get(g.retries, "step_0", 0) >= 1

\* C25: the id a create_workflow returns was returned by no earlier
\* create_workflow and names no record of the store, and the call changes
\* no record under another id; no step removes a record from under its id.
C25_FreshIds ==
  [][ /\ (ret'.op = "create_workflow" /\ ret'.kind = "returned") =>
           /\ ret'.value \notin GeneratedIds
           /\ ret'.value \in GeneratedIds'
           /\ store[WorkflowKey(ret'.value)] = NoDoc
           /\ \A k \in Keys \ {WorkflowKey(ret'.value)} :
                store'[k] = store[k]
      /\ \A k \in Keys : store[k] # NoDoc => store'[k] # NoDoc ]_vars

\* a second workflow was created next to the record of the first
C25_Witness ==
  /\ CreateReturned
  /\ ret.value = GenerateWorkflowId(1)
  /\ store[WorkflowKey(GenerateWorkflowId(0))] # NoDoc
  /\ store[WorkflowKey(GenerateWorkflowId(1))] # NoDoc

\* C26: with the backend working, GET /memory/{key} answers 200 with the
\* document stored under the key when there is one, and 404 when there is
\* none.
C26_MemoryOr404 ==
  (ret.op = "get_memory" /\ ret.ok) =>
    IF store[ret.key] # NoDoc
    THEN /\ ret.response.status_code = 200
         /\ ret.response.body = store[ret.key]
    ELSE ret.response.status_code = 404

\* C27: POST /feedback for a workflow that has a record, the record having
\* been read, answers 200 and leaves under the workflow's key the record it
\* found with feedback and rating set to the submitted values, every other
\* field and every other record as before.
C27_FeedbackMerged ==
  [][ ( /\ ret'.op = "submit_feedback"
        /\ ret'.loadOk
        /\ store[WorkflowKey(ret'.workflow_id)] # NoDoc )
      => LET before == store[WorkflowKey(ret'.workflow_id)]
             after == store'[WorkflowKey(ret'.workflow_id)]
         IN /\ ret'.response.status_code = 200
            /\ after # NoDoc
            /\ DOMAIN after = DOMAIN before \cup {"feedback", "rating"}
            /\ after.feedback = ret'.feedback
            /\ after.rating = ret'.rating
            /\ \A k \in DOMAIN before \ {"feedback", "rating"} :
                 after[k] = before[k]
            /\ \A key \in DOMAIN store \ {WorkflowKey(ret'.workflow_id)} :
                 store'[key] = store[key] ]_vars
\* the required input of the call is missing: the planner's task, or the
\* requirements of the code agent's "generate"
RequiredInputMissing(name, input_data) ==
  \/ /\ name = "planner_agent"
     /\ "task" \notin DOMAIN input_data
  \/ /\ name = "code_agent"
     /\ Get(input_data, "type", "generate") = "generate"
     /\ "requirements" \notin DOMAIN input_data

\* C28: execute called without its required input (the planner without
\* "task", the code agent's "generate" without "requirements") returns a
\* response with success = False and an error message; it does not raise,
\* makes no attempt at the language model and saves no agent state: the
\* store is left as it was.
C28_MissingInputRejected ==
  [][ (ret'.op = "execute"
       /\ RequiredInputMissing(ret'.name, ret'.input_data)) =>
        /\ ret'.outcome.kind = "returned"
        /\ ret'.outcome.response.success = FALSE
        /\ ret'.outcome.response.error # NoText
        /\ ret'.outcome.attempts = 0
        /\ ret'.outcome.saved = << >>
        /\ store' = store ]_vars

\* the code agent was asked to generate without requirements (no type given
\* either) while states of earlier calls are in the store
C28_Witness ==
  /\ ret.op = "execute"
  /\ ret.name = "code_agent"
  /\ DOMAIN ret.input_data = {}
  /\ ret.outcome.response.success = FALSE
  /\ store[AgentKey("code_agent", "latest_generate")] # NoDoc
  /\ store[AgentKey("planner_agent", "latest")] # NoDoc

\* C29: within one execute_workflow run the agent of any single node is
\* invoked at most MAX_RETRIES + 1 times, one first attempt and at most
\* MAX_RETRIES retries, while the run goes on and when it has returned; a
\* run whose last attempt failed ends there, with no handler entered again.
C29_InvocationsBounded ==
  /\ \A f \in ExecFrames : \A n \in DOMAIN f.invoked :
       f.invoked[n] <= MAX_RETRIES + 1
  /\ ExecReturned =>
       /\ \A n \in DOMAIN ret.invoked : ret.invoked[n] <= MAX_RETRIES + 1
       /\ \A n \in DOMAIN ret.entered : ret.entered[n] <= MAX_RETRIES + 1

\* a run has failed for good at a node whose agent was called
\* MAX_RETRIES + 1 times, after the agent of an earlier node had succeeded
C29_Witness ==
  /\ ExecReturned
  /\ ret.response.success = FALSE
  /\ \E n \in DOMAIN ret.invoked :
       /\ ret.invoked[n] = MAX_RETRIES + 1
       /\ ret.retries[n] = MAX_RETRIES
       /\ ret.exc = AgentFailedMsg(AgentErrorText)
       /\ n \notin DOMAIN ret.results
       /\ DOMAIN ret.results # {}

\* the coroutine f failed at its node and became g, asleep before the retry
RetriedInto(f, g) ==
  /\ f.op = "execute_workflow"
  /\ f.pc \in {"agent", "sleep"}
  /\ g.pc = "sleep"
  /\ g.node = f.node
  /\ g.workflow_id = f.workflow_id

\* C30: a failed attempt at node n that is retried raises retries[n] by
\* exactly 1 and changes nothing else: the retry counters of the other
\* nodes and the results recorded so far stay as they were, and so do the
\* workflow state the run holds and the store.
C30_RetryCountsOneNode ==
  [][ \A f \in BagToSet(calls (-) calls'),
         g \in BagToSet(calls' (-) calls) :
        RetriedInto(f, g) =>
          /\ g.retries = Put(f.retries, f.node, Get(f.retries, f.node, 0) + 1)
          /\ \A m \in DOMAIN f.retries \ {f.node} :
               g.retries[m] = f.retries[m]
          /\ g.results = f.results
          /\ g.state = f.state
          /\ store' = store ]_vars

\* a run is asleep before a retry of its second node, having retried its
\* first node before that node succeeded
C30_Witness ==
  \E f \in ExecFrames :
    /\ f.pc = "sleep"
    /\ f.node # "step_0"
    /\ Get(f.retries, f.node, 0) >= 1
    /\ Get(f.retries, "step_0", 0) >= 1
    /\ "step_0" \in DOMAIN f.results

\* the graph g is the one _build_graph makes of the plan held by the
\* record state
BuiltFromPlanOf(g, state) ==
  /\ "plan" \in DOMAIN state
  /\ ~BuildGraph(state.plan).raised
  /\ g = BuildGraph(state.plan)

\* C31: execute_workflow(id) traverses the graph built from the plan stored
\* for workflow id: a run that traverses a graph, whatever workflows were
\* created on the Supervisor before, traverses the graph of the plan in the
\* record it loaded, not the graph of the workflow created last.
C31_OwnGraphTraversed ==
  \A f \in ExecFrames :
    (f.g # NoGraph /\ f.state # NoDoc /\ "plan" \in DOMAIN f.state) =>
      BuiltFromPlanOf(f.g, f.state)

\* C32: when an execute_workflow of an existing workflow ends in failure
\* (its store operations having gone through), the record of the workflow
\* keeps what it held: the plan and the task written at creation, every
\* other field but status and error, and a result for every node that
\* completed before the failure.
C32_FailureKeepsRecord ==
  [][ ( /\ ret'.op = "execute_workflow"
        /\ ~ret'.response.success
        /\ ret'.found
        /\ ret'.io )
      => LET before == store[WorkflowKey(ret'.workflow_id)]
             after == store'[WorkflowKey(ret'.workflow_id)]
         IN /\ after # NoDoc
            /\ before # NoDoc =>
                 \A k \in DOMAIN before \ {"status", "error"} :
                   /\ k \in DOMAIN after
                   /\ after[k] = before[k]
            /\ DOMAIN ret'.results # {} =>
                 /\ "results" \in DOMAIN after
                 /\ DOMAIN ret'.results \subseteq DOMAIN after.results ]_vars

\* an execute_workflow of the existing workflow w is in progress
Executing(w) ==
  \E f \in ExecFrames : f.workflow_id = w /\ f.state # NoDoc

\* C33: provided every agent call comes back and every backoff sleep ends,
\* an execute_workflow of an existing workflow that is in progress leads to
\* a state where no such call is in progress and the record of the workflow
\* is persisted with status "completed" or "failed".
C33_ExecuteEndsPersisted ==
  \A w \in WorkflowIds :
    Executing(w) ~>
      /\ ~Executing(w)
      /\ store[WorkflowKey(w)] # NoDoc
      /\ store[WorkflowKey(w)].status \in {"completed", "failed"}

\* the execute_workflow that returns in this step loaded its record before
\* the feedback now in the store was recorded
FeedbackCameDuringRun ==
  /\ ret'.op = "execute_workflow"
  /\ ret'.io
  /\ store[WorkflowKey(ret'.workflow_id)] # NoDoc
  /\ "feedback" \in DOMAIN store[WorkflowKey(ret'.workflow_id)]
  /\ \E f \in BagToSet(calls (-) calls') :
       /\ f.op = "execute_workflow"
       /\ f.workflow_id = ret'.workflow_id
       /\ f.state # NoDoc
       /\ "feedback" \notin DOMAIN f.state

\* C34: feedback recorded through POST /feedback while an execute_workflow
\* of the same workflow is suspended is still in the workflow's record,
\* with its rating, when that execute_workflow has finished (its store
\* operations having gone through), beside the terminal status of the
\* call; and a feedback write leaves the status of the record as it was.
C34_FeedbackSurvivesRun ==
  [][ /\ FeedbackCameDuringRun =>
           LET before == store[WorkflowKey(ret'.workflow_id)]
               after == store'[WorkflowKey(ret'.workflow_id)]
           IN /\ after # NoDoc
              /\ "feedback" \in DOMAIN after
              /\ "rating" \in DOMAIN after
              /\ after.feedback = before.feedback
              /\ after.rating = before.rating
              /\ after.status =
                   (IF ret'.completed THEN "completed" ELSE "failed")
      /\ (ret'.op = "submit_feedback"
          /\ store[WorkflowKey(ret'.workflow_id)] # NoDoc) =>
           /\ store'[WorkflowKey(ret'.workflow_id)] # NoDoc
           /\ store'[WorkflowKey(ret'.workflow_id)].status
                = store[WorkflowKey(ret'.workflow_id)].status ]_vars

\* C35: a save_state that returns False leaves the value and the expiry
\* under its key as they were; and a save_state with a ttl either stores
\* the value with that expiry and returns True, or stores nothing.
C35_FailedSaveKeepsKey ==
  [][ ret'.op = "save_state" =>
        /\ ~ret'.value => store'[ret'.key] = store[ret'.key]
        /\ (ret'.ttl # NoTtl /\ ret'.ttl # 0) =>
             \/ /\ ret'.value
                /\ store'[ret'.key] = <<Encode(ret'.state), ret'.ttl>>
             \/ store'[ret'.key] = store[ret'.key] ]_vars

\* the attempts, among the first max_retries, at which the model answers
Answered(max_retries, replies) ==
  {i \in 1..max_retries : replies[i] # Raises}

NumberedMarker(line) ==
  \E k \in 1..(Len(line) - 1) :
    /\ \A j \in 1..k : line[j] \in Digits
    /\ line[k + 1] = "."

\* a step line as the claim has it
ClaimedStepLine(line) ==
  /\ \/ NumberedMarker(line)
     \/ StartsWith(line, <<"-">>)
     \/ StartsWith(line, <<Bullet>>)
  /\ Len(line) > 2

\* C37: step extraction returns, in their order in the text, exactly the
\* lines that after trimming start with a numbered marker or a bullet ("-"
\* or the bullet sign) and are longer than 2 characters; the step count
\* reported in the plan is the number of extracted steps and the number of
\* step nodes of the graph built from the plan.
C37_StepsExtracted ==
  ret.op = "_extract_steps" =>
    LET lines == Split(ret.plan_text)
        trimmed == [i \in 1..Len(lines) |-> Strip(lines[i])]
    IN /\ ret.steps = SelectSeq(trimmed, ClaimedStepLine)
       /\ ret.estimated_steps = Len(ret.steps)
       /\ Len(ret.nodes) = ret.estimated_steps


====

